---- MODULE Spec2Model ----
(***************************************************************************)
(* A model of shtola's build orchestrator (shtola/src/lib.rs): the          *)
(* configuration setters, stage registration and build(), which runs       *)
(* Clean, Read, Pipeline and Write against a small file system.            *)
(*                                                                         *)
(* A text is a sequence of lines.  A directory tree is a function from     *)
(* Nodes to entries; the node "." is the tree's own root directory.        *)
(* The front-matter module (mod frontmatter) and the ware crate are not    *)
(* part of the sources at hand; lexer, to_yaml, wrap and run follow their  *)
(* description in the specification.                                       *)
(***************************************************************************)
EXTENDS Naturals, Sequences, FiniteSets, TLC

\* ------------------------------------------------------------------ bounds
MaxStages == 2
MaxIgnores == 4
MaxBuilds == 2
MaxLines == 4

\* ------------------------------------------------------------- file system
Keys == {"hello.txt", "sub", "sub/b.md"}
Nodes == Keys \cup {"."}
Roots == {"src", "out", "cwd"}

Fence == "---"
Invalid == "\\xFF"

NoEntry == [kind |-> "none", data |-> <<>>]
DirEntry == [kind |-> "dir", data |-> <<>>]
\* A directory whose entries cannot be listed (permission denied).
LockedDir == [kind |-> "locked", data |-> <<>>]
FileEntry(t) == [kind |-> "file", data |-> t]

Parent(p) == IF p = "sub/b.md" THEN "sub" ELSE "."

EmptyTree == [n \in Nodes |-> NoEntry]
EmptyDir == [n \in Nodes |-> IF n = "." THEN DirEntry ELSE NoEntry]

\* The texts of the source files: plain, a complete front-matter block, an
\* opening fence that is never closed, and bytes that are not valid UTF-8.
PlainText == <<"hello">>
MatterText == <<Fence, "title: A", Fence, "body text">>
SrcTexts == {PlainText, MatterText, <<Fence, "k">>, <<Invalid>>}
OldText == <<"old">>

SrcTrees ==
    {[n \in Nodes |->
        CASE n = "." -> DirEntry
          [] n = "hello.txt" -> h
          [] n = "sub" -> IF s = "locked" THEN LockedDir ELSE DirEntry
          [] n = "sub/b.md" -> IF s \in {"plain", "locked"} THEN FileEntry(PlainText)
                               ELSE IF s = "matter" THEN FileEntry(MatterText)
                               ELSE NoEntry] :
        h \in {NoEntry} \cup {FileEntry(t) : t \in SrcTexts},
        s \in {"empty", "plain", "matter", "locked"}}

OutTrees ==
    {EmptyTree} \cup
    {[n \in Nodes |->
        CASE n = "." -> DirEntry
          [] n = "hello.txt" -> h
          [] n = "sub" -> IF s = "nosub" THEN NoEntry
                          ELSE IF s = "file" THEN FileEntry(OldText) ELSE DirEntry
          [] n = "sub/b.md" -> IF s = "stale" THEN FileEntry(OldText) ELSE NoEntry] :
        h \in {NoEntry, FileEntry(OldText)},
        s \in {"nosub", "file", "stale"}}

\* std::path::PathBuf::join and the std::fs calls on the default, empty path:
\* joining a key to "" names the key in the working directory, while "" itself
\* names no directory.
JoinRoot(path) == IF path = "" THEN "cwd" ELSE path
IsDir(d, path) == path # "" /\ d[path]["."].kind = "dir"

\* A removal that leaves the files in place.
RemoveDirAllKeep(tree) == tree

\* fs::remove_dir_all
RemoveDirAll(tree) == EmptyTree

\* fs::remove_dir_all that fails on a directory: it removes entry by entry,
\* in the order the directory lists them, and returns at the first error.
\* Any of the entries may be gone, a directory only with all it held; the
\* root itself, removed last, is still there.
RemoveDirAllPartial(tree) ==
    {[n \in Nodes |-> IF n \in gone THEN NoEntry ELSE tree[n]] :
        gone \in {g \in SUBSET Keys :
                    ("sub" \in g /\ tree["sub/b.md"].kind # "none") => "sub/b.md" \in g}}

\* fs::create_dir_all(n): fails when n or an ancestor of n is a regular file.
Chain(n) == IF n = "." THEN {"."} ELSE {".", n}
CanCreateDirAll(tree, n) == \A m \in Chain(n) : tree[m].kind # "file"
CreateDirAll(tree, n) == [m \in Nodes |-> IF m \in Chain(n) THEN DirEntry ELSE tree[m]]

\* fs::create_dir_all(n) that fails: it makes the missing ancestors one by
\* one, so the root may have been made when the directory under it fails.
CreateDirAllPartial(tree, n) ==
    {tree} \cup (IF n # "." /\ tree["."].kind # "file" THEN {CreateDirAll(tree, ".")} ELSE {})

\* fs::File::create(p) followed by write_all(content): fails on a directory.
CanCreateFile(tree, p) == tree[Parent(p)].kind = "dir" /\ tree[p].kind # "dir"
CreateFile(tree, p, content) == [tree EXCEPT ![p] = FileEntry(content)]

\* write_all that fails: the bytes written before the error are a proper
\* prefix of the content, which is the lines joined by line ends.  The prefix
\* ends at a line end, or inside the line after it.
PartialWrites(content) ==
    {SubSeq(content, 1, k) : k \in 0..(Len(content) - 1)} \cup
    UNION {{Append(SubSeq(content, 1, k), SubSeq(content[k + 1], 1, j)) :
               j \in 1..(Len(content[k + 1]) - 1)} : k \in 0..(Len(content) - 1)}

\* WalkDir::new(root) ... filter(|e| !e.path().is_dir()): the regular files
\* the walk yields; an error of the walk (a root that does not exist, a
\* directory that cannot be listed) is dropped by filter_map(|e| e.ok()), and
\* with it the files the walk did not reach.
WalkFiles(d, path) ==
    IF IsDir(d, path)
    THEN {p \in Keys : d[path][p].kind = "file" /\ d[path][Parent(p)].kind = "dir"}
    ELSE {}

\* ------------------------------------------------------------ front matter
FirstFence(text) ==
    CHOOSE j \in 2..Len(text) :
        text[j] = Fence /\ \A i \in 2..(j - 1) : text[i] # Fence

HasBlock(text) ==
    /\ Len(text) >= 2
    /\ text[1] = Fence
    /\ \E j \in 2..Len(text) : text[j] = Fence

\* frontmatter::lexer
lexer(text) ==
    IF HasBlock(text)
    THEN [matter |-> SubSeq(text, 2, FirstFence(text) - 1),
          body |-> SubSeq(text, FirstFence(text) + 1, Len(text))]
    ELSE [matter |-> <<>>, body |-> text]

\* frontmatter::to_yaml: the documents of a block, none for an empty block.
to_yaml(matter) == IF matter = <<>> THEN <<>> ELSE <<matter>>

\* ------------------------------------------------------------------- state
VARIABLES
    config,     \* self.ir.config
    files,      \* self.ir.files
    ware,       \* self.ware: the registered stages
    disk,       \* the directory trees
    pc,         \* where build() stands
    acc,        \* the IR the pipeline has produced so far
    idx,        \* the number of stages run
    todo,       \* the entries of the result IR write_dir has yet to visit
    result,     \* how build() ended
    before,     \* the destination tree when build() was called
    readIR,     \* the IR handed to the pipeline
    written,    \* path -> content of the files written by this build
    calls,      \* the stage calls made by this build
    phases,     \* the phases this build has entered
    failed,     \* the file-system call that failed, if any
    regs,       \* the stages in the order register was called with them
    failPath,   \* the entry whose File::create or write_all failed, if any
    builds,     \* the number of build() calls made
    prev        \* how the build() call before this one ended

vars == <<config, files, ware, disk, pc, acc, idx, todo, result, before, readIR,
          written, calls, phases, failed, regs, failPath, builds, prev>>

NoFiles == [p \in {} |-> NoEntry]
NoIR == [files |-> NoFiles, config |-> [ignores |-> <<>>, source |-> "", destination |-> "",
                                       clean |-> FALSE, frontmatter |-> FALSE]]
NoResult == [kind |-> "none", ir |-> NoIR]

\* Config::default and Shtola::new
DefaultConfig ==
    [ignores |-> <<>>, source |-> "", destination |-> "", clean |-> FALSE,
     frontmatter |-> FALSE]

NoPrev == [kind |-> "none", files |-> NoFiles, dest |-> EmptyTree,
           config |-> DefaultConfig, ware |-> <<>>]

Init ==
    /\ config = DefaultConfig
    /\ files = NoFiles
    /\ ware = <<>>
    /\ \E s \in SrcTrees, o \in OutTrees :
          disk = [r \in Roots |-> IF r = "src" THEN s ELSE IF r = "out" THEN o ELSE EmptyDir]
    /\ pc = "idle"
    /\ acc = NoIR
    /\ idx = 0
    /\ todo = {}
    /\ result = NoResult
    /\ before = EmptyTree
    /\ readIR = NoIR
    /\ written = NoFiles
    /\ calls = <<>>
    /\ phases = <<>>
    /\ failed = "none"
    /\ regs = <<>>
    /\ failPath = ""
    /\ builds = 0
    /\ prev = NoPrev

\* ------------------------------------------------------------------ stages
\* The stages a caller registers (Box<dyn Fn(IR) -> IR>): "A" sets every
\* file's content, as the stage of write_works does, "B" appends to every
\* file's content, "R" removes a file and "N" adds one.  "C" returns an IR
\* with another destination and clean flag, "D" removes the file of the
\* subdirectory.
StageNames == {"A", "B", "R", "N"}
SessionStages == {"A", "C", "D"}

ApplyStage(s, ir) ==
    CASE s = "A" ->
           [ir EXCEPT !.files = [p \in DOMAIN ir.files |->
                                   [ir.files[p] EXCEPT !.content = <<"X">>]]]
      [] s = "B" ->
           [ir EXCEPT !.files = [p \in DOMAIN ir.files |->
                                   [ir.files[p] EXCEPT !.content = Append(@, "Y")]]]
      [] s = "R" ->
           [ir EXCEPT !.files = [p \in DOMAIN ir.files \ {"hello.txt"} |-> ir.files[p]]]
      [] s = "N" ->
           [ir EXCEPT !.files = [p \in DOMAIN ir.files \cup {"sub"} |->
                                   IF p = "sub" THEN [frontmatter |-> <<>>, content |-> <<"N">>]
                                   ELSE ir.files[p]]]
      [] s = "C" ->
           [ir EXCEPT !.config.destination = IF @ = "out" THEN "" ELSE "out",
                      !.config.clean = ~@]
      [] s = "D" ->
           [ir EXCEPT !.files = [p \in DOMAIN ir.files \ {"sub/b.md"} |-> ir.files[p]]]

\* Ware::wrap: the stage is added at the end of the list.
wrap(fns, func) == Append(fns, func)

\* Ware::run, one step of the fold: the next stage is applied to what the
\* stages before it produced.
run_step(fns, i, ir) == ApplyStage(fns[i + 1], ir)

\* ---------------------------------------------------------------- read_dir
ValidText(text) == \A i \in 1..Len(text) : text[i] # Invalid

\* A read that takes the two parts of the extractor's result the other way round.
ReadFileSwapped(text) ==
    [frontmatter |-> to_yaml(lexer(text).body), content |-> lexer(text).matter]

\* A read that keeps the whole text as the content.
ReadFileWhole(text) ==
    [frontmatter |-> to_yaml(lexer(text).matter), content |-> text]

\* read_dir, lines 100-107: the File Record of one file.
ReadFile(text) ==
    [frontmatter |-> to_yaml(lexer(text).matter), content |-> lexer(text).body]

\* read_to_string fails on a file that is not valid UTF-8.
ReadOk(d, source) == \A p \in WalkFiles(d, source) : ValidText(d[source][p].data)

read_dir(d, source) == [p \in WalkFiles(d, source) |-> ReadFile(d[source][p].data)]

\* ------------------------------------------------------------ the setters
DestRoot == JoinRoot(config.destination)

\* A builder call is made while build() is not running: before the first
\* build, or after a build has returned its result or its error.
Callable == {"idle", "done", "error"}

\* How the build() that has returned ended, what it left in the destination,
\* and the configuration and the stages it ran with.
LastBuild ==
    [kind |-> result.kind, files |-> result.ir.files, dest |-> disk[DestRoot],
     config |-> config, ware |-> ware]

\* A builder call (&mut self) made before or after a build(): the build
\* that has returned is over, what it returned is the caller's.
Called ==
    /\ pc \in Callable
    /\ pc' = "idle"
    /\ prev' = IF pc = "idle" THEN prev ELSE LastBuild
    /\ acc' = NoIR
    /\ idx' = 0
    /\ todo' = {}
    /\ result' = NoResult
    /\ before' = EmptyTree
    /\ readIR' = NoIR
    /\ written' = NoFiles
    /\ calls' = <<>>
    /\ phases' = <<>>
    /\ failed' = "none"
    /\ failPath' = ""

\* Shtola::ignores: Vec::append, then Vec::dedup, which removes an element
\* equal to the one before it.
RECURSIVE dedup(_)
dedup(v) ==
    IF Len(v) <= 1 THEN v
    ELSE IF v[Len(v)] = v[Len(v) - 1] THEN dedup(SubSeq(v, 1, Len(v) - 1))
    ELSE Append(dedup(SubSeq(v, 1, Len(v) - 1)), v[Len(v)])

IgnorePaths == {"x", "y"}
IgnoreVecs == {<<a>> : a \in IgnorePaths} \cup {<<a, b>> : a, b \in IgnorePaths}

IgnoresResult(old, vec) == dedup(old \o vec)

Ignores(vec) ==
    /\ Called
    /\ Len(config.ignores) + Len(vec) <= MaxIgnores
    /\ config' = [config EXCEPT !.ignores = IgnoresResult(config.ignores, vec)]
    /\ UNCHANGED <<files, ware, disk, regs, builds>>

\* Shtola::source: the source directory exists, canonicalize succeeds.
Source ==
    /\ Called
    /\ config' = [config EXCEPT !.source = "src"]
    /\ UNCHANGED <<files, ware, disk, regs, builds>>

\* Shtola::destination: the directory is created when it is missing.
Destination ==
    /\ Called
    /\ disk' = [disk EXCEPT !["out"] = CreateDirAll(@, ".")]
    /\ config' = [config EXCEPT !.destination = "out"]
    /\ UNCHANGED <<files, ware, regs, builds>>

\* The environment: the destination directory is removed after destination()
\* has set it.
DestinationRemoved ==
    /\ pc = "idle"
    /\ IsDir(disk, config.destination)
    /\ disk' = [disk EXCEPT ![config.destination] = EmptyTree]
    /\ UNCHANGED <<config, files, ware, pc, acc, idx, todo, result, before, readIR,
                   written, calls, phases, failed, regs, failPath, builds, prev>>

\* Shtola::clean
Clean(b) ==
    /\ Called
    /\ config' = [config EXCEPT !.clean = b]
    /\ UNCHANGED <<files, ware, disk, regs, builds>>

\* Shtola::frontmatter
Frontmatter(b) ==
    /\ Called
    /\ config' = [config EXCEPT !.frontmatter = b]
    /\ UNCHANGED <<files, ware, disk, regs, builds>>

\* Shtola::register
Register(s) ==
    /\ Called
    /\ Len(ware) < MaxStages
    /\ ware' = wrap(ware, s)
    /\ regs' = Append(regs, s)
    /\ UNCHANGED <<config, files, disk, builds>>

\* ------------------------------------------------------------------ build
\* A build that never cleans, and one that always does.
FirstPhaseNever(cfg) == "read"
FirstPhaseAlways(cfg) == "clean"

\* build, line 59: the Clean phase is entered only with clean set.
FirstPhase(cfg) == IF cfg.clean THEN "clean" ELSE "read"

BuildStart ==
    /\ pc = "idle"
    /\ builds < MaxBuilds
    /\ pc' = FirstPhase(config)
    /\ before' = disk[DestRoot]
    /\ phases' = IF pc' = "clean" THEN <<"clean">> ELSE <<>>
    /\ builds' = builds + 1
    /\ UNCHANGED <<config, files, ware, disk, acc, idx, todo, result, readIR,
                   written, calls, failed, regs, failPath, prev>>

\* build, line 60: remove_dir_all fails when the destination is no directory,
\* leaving everything as it is, and may fail on a directory (permissions)
\* with a part of it removed; `?` returns the error.
CleanRemoveFails ==
    /\ pc = "clean"
    /\ IF IsDir(disk, config.destination)
       THEN \E t \in RemoveDirAllPartial(disk[config.destination]) :
               disk' = [disk EXCEPT ![config.destination] = t]
       ELSE disk' = disk
    /\ pc' = "error"
    /\ result' = [kind |-> "err", ir |-> NoIR]
    /\ failed' = "remove_dir_all"
    /\ UNCHANGED <<config, files, ware, acc, idx, todo, before, readIR,
                   written, calls, phases, regs, failPath, builds, prev>>

CleanRemove ==
    /\ pc = "clean"
    /\ IsDir(disk, config.destination)
    /\ disk' = [disk EXCEPT ![config.destination] = RemoveDirAll(@)]
    /\ pc' = "recreate"
    /\ UNCHANGED <<config, files, ware, acc, idx, todo, result, before, readIR,
                   written, calls, phases, failed, regs, failPath, builds, prev>>

\* build, line 61: create_dir_all(...).expect(...) panics when it fails.
CleanRecreateFails ==
    /\ pc = "recreate"
    /\ pc' = "panic"
    /\ result' = [kind |-> "panic", ir |-> NoIR]
    /\ failed' = "create_dir_all"
    /\ UNCHANGED <<config, files, ware, disk, acc, idx, todo, before, readIR,
                   written, calls, phases, regs, failPath, builds, prev>>

CleanRecreate ==
    /\ pc = "recreate"
    /\ disk' = [disk EXCEPT ![config.destination] = CreateDirAll(@, ".")]
    /\ pc' = "read"
    /\ UNCHANGED <<config, files, ware, acc, idx, todo, result, before, readIR,
                   written, calls, phases, failed, regs, failPath, builds, prev>>

\* build, line 63: read_dir(...)? returns the error of the first file that
\* cannot be read: File::open may fail on any file (permissions), whatever
\* it holds, and read_to_string fails on one that is not valid UTF-8.
ReadFails ==
    /\ pc = "read"
    /\ WalkFiles(disk, config.source) # {}
    /\ pc' = "error"
    /\ result' = [kind |-> "err", ir |-> NoIR]
    /\ failed' \in {"open"} \cup
                   (IF ReadOk(disk, config.source) THEN {} ELSE {"read_to_string"})
    /\ phases' = Append(phases, "read")
    /\ UNCHANGED <<config, files, ware, disk, acc, idx, todo, before, readIR,
                   written, calls, regs, failPath, builds, prev>>

\* build, lines 63-65: the File Store is stored and a clone of self.ir is
\* handed to the pipeline.
Read ==
    /\ pc = "read"
    /\ ReadOk(disk, config.source)
    /\ files' = read_dir(disk, config.source)
    /\ readIR' = [files |-> files', config |-> config]
    /\ acc' = readIR'
    /\ idx' = 0
    /\ pc' = "pipeline"
    /\ phases' = Append(phases, "read") \o <<"pipeline">>
    /\ UNCHANGED <<config, ware, disk, todo, result, before, written, calls, failed, regs, failPath, builds, prev>>

\* build, line 65: self.ware.run, one stage at a time.
RunStage ==
    /\ pc = "pipeline"
    /\ idx < Len(ware)
    /\ acc' = run_step(ware, idx, acc)
    /\ calls' = Append(calls, [stage |-> ware[idx + 1], input |-> acc, output |-> acc'])
    /\ idx' = idx + 1
    /\ UNCHANGED <<config, files, ware, disk, pc, todo, result, before, readIR,
                   written, phases, failed, regs, failPath, builds, prev>>

\* A build that writes the IR it stored instead of the pipeline's result.
WriteIRStored(result_ir, self_ir) == self_ir

\* build, line 66: what write_dir is called with.
WriteIR(result_ir, self_ir) == result_ir

\* A build that writes to the destination of the IR the pipeline returned.
WriteDestOfResult(result_ir, self_ir) == result_ir.config.destination

WriteDest(result_ir, self_ir) == self_ir.config.destination

\* A build that returns the IR it stored instead of the pipeline's result.
BuildResultStored(result_ir, self_ir) == self_ir

\* build, line 67: what build returns.
BuildResult(result_ir, self_ir) == result_ir

SelfIR == [files |-> files, config |-> config]

\* A write that visits the entries of the source's paths only.
WriteKeysNoNew(ir) == DOMAIN ir.files \ {"sub"}

\* write_dir, line 115: the entries the loop visits.
WriteKeys(ir) == DOMAIN ir.files

\* A build that runs the pipeline on the stored IR itself.
StoredAfterRunResult(self_files, result_ir) == result_ir.files

\* build, line 65: the pipeline is run on a clone, the stored File Store
\* stays what Read made it.
StoredAfterRun(self_files, result_ir) == self_files

StartWrite ==
    /\ pc = "pipeline"
    /\ idx = Len(ware)
    /\ files' = StoredAfterRun(files, acc)
    /\ todo' = WriteKeys(WriteIR(acc, [files |-> files', config |-> config]))
    /\ pc' = "write"
    /\ phases' = Append(phases, "write")
    /\ UNCHANGED <<config, ware, disk, acc, idx, result, before, readIR,
                   written, calls, failed, regs, failPath, builds, prev>>

WriteRoot == JoinRoot(WriteDest(acc, SelfIR))

\* write_dir, line 117: create_dir_all(parent).expect(...) panics when it
\* fails, with the ancestors it had made left in place.
WriteMkdirFails(p) ==
    /\ pc = "write"
    /\ p \in todo
    /\ \E t \in CreateDirAllPartial(disk[WriteRoot], Parent(p)) :
          disk' = [disk EXCEPT ![WriteRoot] = t]
    /\ pc' = "panic"
    /\ result' = [kind |-> "panic", ir |-> NoIR]
    /\ failed' = "create_dir_all"
    /\ UNCHANGED <<config, files, ware, acc, idx, todo, before, readIR,
                   written, calls, phases, regs, failPath, builds, prev>>

\* A write_dir that drops the error of a write and goes on with the loop.
WriteErrorIgnored == "write"

\* write_dir, line 118: the two `?` leave write_dir, and build, with the error.
WriteErrorExit == "error"

\* write_dir, line 118: File::create(...)? fails without touching the file;
\* write_all(...)? fails after create has truncated it, with a part of the
\* content written.
WriteFileFails(p) ==
    /\ pc = "write"
    /\ p \in todo
    /\ CanCreateDirAll(disk[WriteRoot], Parent(p))
    /\ LET made == CreateDirAll(disk[WriteRoot], Parent(p))
           content == WriteIR(acc, SelfIR).files[p].content
       IN  \/ /\ disk' = [disk EXCEPT ![WriteRoot] = made]
              /\ failed' = "create"
           \/ /\ CanCreateFile(made, p)
              /\ \E part \in PartialWrites(content) :
                    disk' = [disk EXCEPT ![WriteRoot] = CreateFile(made, p, part)]
              /\ failed' = "write_all"
    /\ pc' = WriteErrorExit
    /\ result' = [kind |-> "err", ir |-> NoIR]
    /\ failPath' = p
    /\ UNCHANGED <<config, files, ware, acc, idx, todo, before, readIR,
                   written, calls, phases, regs, builds, prev>>

\* A write that makes the source's subdirectory for every entry.
WriteEntryMirror(tree, p, file) ==
    CreateFile(CreateDirAll(CreateDirAll(tree, "sub"), Parent(p)), p, file.content)

\* write_dir, lines 116-118: one entry of the result IR is written.
WriteEntry(tree, p, file) == CreateFile(CreateDirAll(tree, Parent(p)), p, file.content)

WriteFile(p) ==
    /\ pc = "write"
    /\ p \in todo
    /\ CanCreateDirAll(disk[WriteRoot], Parent(p))
    /\ CanCreateFile(CreateDirAll(disk[WriteRoot], Parent(p)), p)
    /\ disk' = [disk EXCEPT ![WriteRoot] = WriteEntry(@, p, WriteIR(acc, SelfIR).files[p])]
    /\ written' = [q \in DOMAIN written \cup {p} |->
                     IF q = p THEN disk'[WriteRoot][p].data ELSE written[q]]
    /\ todo' = todo \ {p}
    /\ UNCHANGED <<config, files, ware, pc, acc, idx, result, before, readIR,
                   calls, phases, failed, regs, failPath, builds, prev>>

\* build, line 67: Ok(result_ir).
Finish ==
    /\ pc = "write"
    /\ todo = {}
    /\ pc' = "done"
    /\ result' = [kind |-> "ok", ir |-> BuildResult(acc, SelfIR)]
    /\ UNCHANGED <<config, files, ware, disk, acc, idx, todo, before, readIR,
                   written, calls, phases, failed, regs, failPath, builds, prev>>

Build ==
    \/ BuildStart
    \/ CleanRemoveFails
    \/ CleanRemove
    \/ CleanRecreateFails
    \/ CleanRecreate
    \/ ReadFails
    \/ Read
    \/ RunStage
    \/ StartWrite
    \/ \E p \in Keys : WriteMkdirFails(p)
    \/ \E p \in Keys : WriteFileFails(p)
    \/ \E p \in Keys : WriteFile(p)
    \/ Finish

\* build is called again, with no other call since it returned.
BuildAgain ==
    /\ pc \in Callable \ {"idle"}
    /\ builds < MaxBuilds
    /\ prev' = LastBuild
    /\ pc' = FirstPhase(config)
    /\ before' = disk[DestRoot]
    /\ phases' = IF pc' = "clean" THEN <<"clean">> ELSE <<>>
    /\ builds' = builds + 1
    /\ acc' = NoIR
    /\ idx' = 0
    /\ todo' = {}
    /\ result' = NoResult
    /\ readIR' = NoIR
    /\ written' = NoFiles
    /\ calls' = <<>>
    /\ failed' = "none"
    /\ failPath' = ""
    /\ UNCHANGED <<config, files, ware, disk, regs>>

\* The builder calls made on a new Shtola, and the first build().  build()
\* never reads config.ignores, so the ignores calls are left to SpecIgnores.
Next ==
    \/ builds = 0 /\ Source
    \/ builds = 0 /\ Destination
    \/ builds = 0 /\ \E b \in BOOLEAN : Clean(b)
    \/ builds = 0 /\ \E b \in BOOLEAN : Frontmatter(b)
    \/ builds = 0 /\ \E s \in StageNames : Register(s)
    \/ DestinationRemoved
    \/ Build

Spec == Init /\ [][Next]_vars

\* A session: builder calls and build() calls in any order, build() called
\* more than once, with stages that rewrite the configuration of the IR or
\* empty a directory.  The source holds hello.txt and a subdirectory with
\* or without a file; the destination is missing, or holds stale files, or a
\* file where the source has the subdirectory.
SessionSrcTrees ==
    {t \in SrcTrees :
        /\ t["hello.txt"] = FileEntry(PlainText)
        /\ t["sub"] = DirEntry
        /\ t["sub/b.md"] \in {NoEntry, FileEntry(PlainText)}}

SessionOutTrees ==
    {t \in OutTrees :
        \/ t = EmptyTree
        \/ t["hello.txt"] = FileEntry(OldText) /\ t["sub"].kind = "file"
        \/ t["hello.txt"] = FileEntry(OldText) /\ t["sub/b.md"].kind = "file"}

InitSession ==
    /\ Init
    /\ disk["src"] \in SessionSrcTrees
    /\ disk["out"] \in SessionOutTrees

\* In a session the file system grants every permission: a call of std::fs
\* fails only where the tree makes it fail (remove_dir_all on a missing
\* directory, create_dir_all through a regular file).
NextSession ==
    \/ Source
    \/ Destination
    \/ \E b \in BOOLEAN : Clean(b)
    \/ \E b \in BOOLEAN : Frontmatter(b)
    \/ \E s \in SessionStages : Register(s)
    \/ BuildStart
    \/ ~IsDir(disk, config.destination) /\ CleanRemoveFails
    \/ CleanRemove
    \/ CleanRecreate
    \/ Read
    \/ RunStage
    \/ StartWrite
    \/ \E p \in Keys : ~CanCreateDirAll(disk[WriteRoot], Parent(p)) /\ WriteMkdirFails(p)
    \/ \E p \in Keys : WriteFile(p)
    \/ Finish
    \/ BuildAgain

SpecSession == InitSession /\ [][NextSession]_vars

\* Read on a source that holds one file, of any text of up to MaxLines
\* lines: a fence, a line of metadata or body, a line that only begins like
\* a fence.
LexLines == {Fence, "title: A", "----"}
LexTexts == UNION {[1..n -> LexLines] : n \in 0..MaxLines}

InitLexer ==
    /\ config = [DefaultConfig EXCEPT !.source = "src"]
    /\ files = NoFiles
    /\ ware = <<>>
    /\ \E t \in LexTexts :
          disk = [r \in Roots |->
                    IF r = "src" THEN [EmptyDir EXCEPT !["hello.txt"] = FileEntry(t)]
                    ELSE IF r = "out" THEN EmptyTree ELSE EmptyDir]
    /\ pc = "idle"
    /\ acc = NoIR
    /\ idx = 0
    /\ todo = {}
    /\ result = NoResult
    /\ before = EmptyTree
    /\ readIR = NoIR
    /\ written = NoFiles
    /\ calls = <<>>
    /\ phases = <<>>
    /\ failed = "none"
    /\ regs = <<>>
    /\ failPath = ""
    /\ builds = 0
    /\ prev = NoPrev

NextLexer == BuildStart \/ ReadFails \/ Read

SpecLexer == InitLexer /\ [][NextLexer]_vars

\* Sequences of ignores calls on a new Shtola.
NextIgnores == \E vec \in IgnoreVecs : Ignores(vec)

SpecIgnores == Init /\ [][NextIgnores]_vars

\* ------------------------------------------------------------------ claims
Running == pc # "idle"
SrcFiles == WalkFiles(disk, config.source)
DestTree == disk[DestRoot]
LastOutput == IF calls = <<>> THEN readIR ELSE calls[Len(calls)].output
IsPrefix(a, b) == Len(a) <= Len(b) /\ a = SubSeq(b, 1, Len(a))
WrittenIs(store) ==
    /\ DOMAIN written = DOMAIN store
    /\ \A p \in DOMAIN store :
          written[p] = store[p].content /\ DestTree[p] = FileEntry(store[p].content)

\* C1: the stages run once each, in the order they were registered: the
\* first receives the IR produced by Read, every later one the IR its
\* predecessor returned, and the IR written and returned is the last one's.
C1_StagesInOrder ==
    /\ Len(calls) = idx
    /\ IsPrefix([i \in 1..Len(calls) |-> calls[i].stage], regs)
    /\ \A i \in 1..Len(calls) :
          /\ calls[i].input = (IF i = 1 THEN readIR ELSE calls[i - 1].output)
          /\ calls[i].output = ApplyStage(regs[i], calls[i].input)
    /\ pc \in {"write", "done"} => Len(calls) = Len(regs)
    /\ pc = "done" => result.ir = LastOutput /\ WrittenIs(LastOutput.files)

C1_Witness ==
    /\ pc = "done"
    /\ regs = <<"A", "B">>
    /\ "hello.txt" \in DOMAIN written
    /\ written["hello.txt"] = <<"X", "Y">>

\* C2, as claimed: without stages, every source file is written to the same
\* relative path with the bytes of the source file.
C2_ByteIdentical ==
    (pc = "done" /\ regs = <<>>) =>
        \A p \in SrcFiles : DestTree[p] = disk[config.source][p]

\* C2, amended: without stages, every source file is written to the same
\* relative path with the body the front-matter extractor returns for its
\* text, for either value of the flag; that is the source's bytes when the
\* text does not begin with a complete front-matter block.
C2_BodyWritten ==
    (pc = "done" /\ regs = <<>>) =>
        \A p \in SrcFiles :
            LET text == disk[config.source][p].data
            IN  /\ DestTree[p] = FileEntry(lexer(text).body)
                /\ DestTree[p] = disk[config.source][p] <=> ~HasBlock(text)

C2_Witness ==
    /\ pc = "done"
    /\ regs = <<>>
    /\ ~config.frontmatter
    /\ config.source = "src"
    /\ disk["src"]["hello.txt"] = FileEntry(MatterText)
    /\ DestTree["hello.txt"] = FileEntry(<<"body text">>)
    /\ disk["src"]["sub/b.md"] = FileEntry(PlainText)
    /\ DestTree["sub/b.md"] = FileEntry(PlainText)

\* C3: in a successful build the paths written are exactly the keys of the
\* File Store the last stage returned, each with its record's content: a
\* path a stage removed is not written, a path a stage added is.
C3_WrittenIsFinalStore ==
    pc = "done" =>
        /\ WrittenIs(LastOutput.files)
        /\ \A p \in DOMAIN readIR.files \ DOMAIN LastOutput.files : p \notin DOMAIN written
        /\ \A p \in DOMAIN LastOutput.files \ DOMAIN readIR.files : p \in DOMAIN written

C3_Witness ==
    /\ pc = "done"
    /\ "hello.txt" \in DOMAIN readIR.files
    /\ "hello.txt" \notin DOMAIN written
    /\ "sub" \notin DOMAIN readIR.files
    /\ "sub" \in DOMAIN written
    /\ DestTree["sub"] = FileEntry(<<"N">>)

\* C4: with clean set, from the end of the Clean phase on, the only files in
\* the destination are those this build has written: the files found there
\* are removed before the first write, and after a successful build none of
\* them remains unless its path is a key of the final File Store.
C4_CleanRemovesStale ==
    (config.clean /\ pc \in {"read", "pipeline", "write", "done"}) =>
        /\ \A p \in Keys : DestTree[p].kind = "file" => p \in DOMAIN written
        /\ pc = "done" =>
              \A p \in Keys :
                  (before[p].kind = "file" /\ p \notin DOMAIN LastOutput.files)
                      => DestTree[p].kind # "file"

C4_Witness ==
    /\ pc = "done"
    /\ config.clean
    /\ before["hello.txt"] = FileEntry(OldText)
    /\ "hello.txt" \notin DOMAIN LastOutput.files
    /\ DestTree["hello.txt"] = NoEntry
    /\ written # NoFiles

\* C5, as claimed: with front-matter parsing disabled, every File Record
\* produced by Read has empty metadata.
C5_DisabledMeansNoMetadata ==
    (~config.frontmatter /\ "pipeline" \in {phases[i] : i \in 1..Len(phases)}) =>
        \A p \in DOMAIN readIR.files : readIR.files[p].frontmatter = <<>>

\* C6: the phases are entered in the order Clean (with clean set only),
\* Read, Pipeline, Write, each after the ones before it have succeeded; when
\* Clean fails nothing is read, no stage is run and nothing is written.
C6_PhaseOrder ==
    /\ Running =>
          IsPrefix(phases, (IF config.clean THEN <<"clean">> ELSE <<>>)
                               \o <<"read", "pipeline", "write">>)
    /\ (Running /\ config.clean) => phases # <<>>
    /\ pc \in {"pipeline", "write", "done"} => readIR.files = read_dir(disk, config.source)
    /\ pc \in {"write", "done"} => idx = Len(ware)
    /\ pc = "done" => todo = {}
    /\ (Running /\ phases \in {<<>>, <<"clean">>, <<"clean", "read">>, <<"read">>}) =>
          (readIR = NoIR /\ files = NoFiles /\ calls = <<>> /\ written = NoFiles)
    /\ (Running /\ "write" \notin {phases[i] : i \in 1..Len(phases)}) =>
          (written = NoFiles /\ \A n \in Keys : DestTree[n] \in {before[n], NoEntry})
    /\ (failed # "none" /\ phases = <<"clean">>) =>
          (pc \in {"error", "panic"} /\ readIR = NoIR /\ calls = <<>> /\ written = NoFiles)

C6_Witness ==
    /\ pc = "error"
    /\ failed = "remove_dir_all"
    /\ SrcFiles # {}
    /\ ware # <<>>
    /\ config.destination = "out"
    /\ before["hello.txt"] = FileEntry(OldText)
    /\ DestTree["hello.txt"] = NoEntry
    /\ DestTree["sub/b.md"] = FileEntry(OldText)

\* C7, as claimed: every file-system failure during build ends it with the
\* failure result that carries the I/O error.
C7_FailureIsReturned == failed # "none" => (pc = "error" /\ result.kind = "err")

\* C8, as claimed: the ignore-path list never holds a path twice.
C8_NoDuplicateIgnores ==
    \A i, j \in 1..Len(config.ignores) :
        i # j => config.ignores[i] # config.ignores[j]

\* C9: a successful build returns the IR of the last stage (of Read without
\* stages), whose File Store is what was written to the destination; for a
\* source holding only hello.txt and no stages it has the one key hello.txt.
C9_ReturnsWhatWasWritten ==
    pc = "done" =>
        /\ result.kind = "ok"
        /\ result.ir = LastOutput
        /\ regs = <<>> => result.ir = readIR
        /\ DOMAIN result.ir.files = DOMAIN written
        /\ \A p \in DOMAIN written :
              /\ written[p] = result.ir.files[p].content
              /\ DestTree[p] = FileEntry(result.ir.files[p].content)
        /\ (regs = <<>> /\ SrcFiles = {"hello.txt"}) =>
              DOMAIN result.ir.files = {"hello.txt"}

C9_Witness ==
    /\ pc = "done"
    /\ regs = <<>>
    /\ SrcFiles = {"hello.txt"}
    /\ DOMAIN result.ir.files = {"hello.txt"}
    /\ result.ir.files["hello.txt"].content = PlainText
    /\ DestTree["hello.txt"] = FileEntry(PlainText)

\* C10: in a build with clean unset, a file found in the destination whose
\* path is not a key of the final File Store keeps its content; nothing in
\* the destination changes before the Write phase.
C10_StaleFilesKept ==
    (Running /\ ~config.clean) =>
        /\ "write" \notin {phases[i] : i \in 1..Len(phases)} => DestTree = before
        /\ "write" \in {phases[i] : i \in 1..Len(phases)} =>
              \A p \in Keys :
                  (before[p].kind = "file" /\ p \notin DOMAIN LastOutput.files)
                      => DestTree[p] = before[p]

C10_Witness ==
    /\ pc = "done"
    /\ ~config.clean
    /\ before["hello.txt"] = FileEntry(OldText)
    /\ "hello.txt" \notin DOMAIN LastOutput.files
    /\ DestTree["hello.txt"] = FileEntry(OldText)
    /\ written # NoFiles

\* C11, as claimed: with clean set, Clean does not fail when the destination
\* directory does not exist as build is called (never set, or removed since).
DestMissingAtStart == config.destination = "" \/ before["."].kind # "dir"

C11_MissingDestinationIsCleaned ==
    (Running /\ config.clean /\ DestMissingAtStart) => failed # "remove_dir_all"

\* C12, as claimed: when an entry under the source root cannot be read, Read
\* aborts and build returns the I/O error; the Pipeline and Write phases are
\* never entered with a File Store that lacks entries of the source.
SrcRegularFiles ==
    IF config.source = "" THEN {} ELSE {p \in Keys : disk[config.source][p].kind = "file"}
SrcUnreadable ==
    IF config.source = "" THEN {}
    ELSE {n \in Keys : \/ disk[config.source][n].kind = "locked"
                       \/ /\ disk[config.source][n].kind = "file"
                          /\ ~ValidText(disk[config.source][n].data)}

C12_UnreadableAborts ==
    /\ failed \in {"open", "read_to_string"} =>
          (pc = "error" /\ result.kind = "err" /\ calls = <<>> /\ written = NoFiles)
    /\ pc \in {"pipeline", "write", "done"} =>
          (SrcUnreadable = {} /\ DOMAIN readIR.files = SrcRegularFiles)

\* C13: when File::create or write_all fails on an entry of the final File
\* Store, build returns the error, every file written before it keeps the
\* content this build wrote (no rollback), and no entry after it is written.
C13_WriteFailureStops ==
    failed \in {"create", "write_all"} =>
        /\ pc = "error"
        /\ result.kind = "err"
        /\ failPath \in todo
        /\ DOMAIN written \cup todo = DOMAIN LastOutput.files
        /\ \A p \in DOMAIN written :
              p \notin todo /\ DestTree[p] = FileEntry(LastOutput.files[p].content)
        /\ \A p \in todo \ {failPath} :
              DestTree[p].kind = "file" => (~config.clean /\ DestTree[p] = before[p])

C13_Witness ==
    /\ pc = "error"
    /\ failed = "write_all"
    /\ failPath = "sub/b.md"
    /\ "hello.txt" \in DOMAIN written
    /\ DestTree["hello.txt"] = FileEntry(<<"X">>)
    /\ before["hello.txt"] = FileEntry(OldText)
    /\ todo \ {failPath} # {}

\* C14: the Write phase makes a directory under the destination only when
\* it is an ancestor of a key of the final File Store: a source directory
\* without regular files, or whose files a stage removed, does not appear,
\* and with an empty final File Store nothing is created.
InPhase(ph) == ph \in {phases[i] : i \in 1..Len(phases)}
DestBeforeWrite == IF config.clean THEN EmptyDir ELSE before

C14_OnlyAncestorsCreated ==
    InPhase("write") =>
        /\ \A n \in Keys :
              (DestTree[n].kind = "dir" /\ DestBeforeWrite[n].kind # "dir") =>
                  \E p \in DOMAIN LastOutput.files : Parent(p) = n
        /\ DOMAIN LastOutput.files = {} => DestTree = DestBeforeWrite

C14_Witness ==
    /\ pc = "done"
    /\ config.source = "src"
    /\ disk["src"]["sub/b.md"].kind = "file"
    /\ "sub/b.md" \in DOMAIN readIR.files
    /\ "D" \in {regs[i] : i \in 1..Len(regs)}
    /\ "hello.txt" \in DOMAIN written
    /\ DestTree["sub"].kind = "none"

\* C16: build leaves the stored Configuration as it is, whatever
\* Configuration a stage puts into the IR it returns: every file of the build
\* is written under the destination configured before build was called, and
\* no step of build, nor a later call of it, changes the configuration.
C16_WrittenUnderConfigured ==
    /\ \A p \in DOMAIN written : DestTree[p] = FileEntry(written[p])
    /\ pc \in {"pipeline", "write", "done"} => readIR.config = config

\* C16, the whole claim: the state property above in every state, and in
\* every step of a build, the first or a later one, the configuration
\* unchanged and no tree touched but that of the configured destination.
C16_ConfigUnchanged ==
    /\ []C16_WrittenUnderConfigured
    /\ [][pc' # "idle" =>
            /\ config' = config
            /\ \A r \in Roots \ {DestRoot} : disk'[r] = disk[r]]_vars

C16_Witness ==
    /\ pc = "done"
    /\ builds = 2
    /\ regs = <<"C">>
    /\ config.destination = "out"
    /\ config.clean
    /\ result.ir.config.destination = ""
    /\ ~result.ir.config.clean
    /\ "hello.txt" \in DOMAIN written
    /\ prev.kind = "ok"

\* C17: every build replaces the stored File Store by a new Read of the
\* source, which stays the stored File Store while the pipeline runs, so the
\* first stage of every build receives the Read result; a build after a
\* successful build, with the configuration and the stages of that build,
\* returns an equal File Store and leaves the same destination contents.
C17_NoAccumulation ==
    /\ pc \in {"pipeline", "write", "done"} =>
          (files = read_dir(disk, config.source) /\ readIR.files = files)
    /\ calls # <<>> => calls[1].input = readIR
    /\ (pc = "done" /\ builds >= 2 /\ prev.kind = "ok"
           /\ prev.config = config /\ prev.ware = ware) =>
          (result.ir.files = prev.files /\ DestTree = prev.dest)

C17_Witness ==
    /\ pc = "done"
    /\ builds = 2
    /\ prev.kind = "ok"
    /\ prev.config = config
    /\ prev.ware = ware
    /\ regs = <<"A">>
    /\ "hello.txt" \in DOMAIN files
    /\ "hello.txt" \in DOMAIN prev.files
    /\ files["hello.txt"].content = PlainText
    /\ calls[1].input.files["hello.txt"].content = PlainText
    /\ result.ir.files["hello.txt"].content = <<"X">>
    /\ prev.files["hello.txt"].content = <<"X">>

\* C15: for a text that starts with a fence line and has no later fence
\* line, Read records empty metadata and the whole text, opening fence
\* included, as the content.
Unclosed(text) ==
    /\ Len(text) >= 1
    /\ text[1] = Fence
    /\ \A j \in 2..Len(text) : text[j] # Fence

C15_UnclosedFenceIsBody ==
    pc = "pipeline" =>
        \A p \in DOMAIN readIR.files :
            Unclosed(disk[config.source][p].data) =>
                readIR.files[p] = [frontmatter |-> <<>>,
                                   content |-> disk[config.source][p].data]

C15_Witness ==
    /\ pc = "pipeline"
    /\ disk["src"]["hello.txt"] = FileEntry(<<Fence, "title: A", "----">>)
    /\ readIR.files["hello.txt"] =
          [frontmatter |-> <<>>, content |-> <<Fence, "title: A", "----">>]
====
